---- MODULE Spec2Model ----
(***************************************************************************)
(* The application lifecycle shell of src/main.js: one window-creation     *)
(* function and three lifecycle callbacks (ready continuation, activate,   *)
(* window-all-closed) run by the host framework's single-threaded event    *)
(* loop.                                                                   *)
(*                                                                         *)
(* The host framework (Electron) is not part of the repository.  It is     *)
(* modelled by what the shell consumes of it:                              *)
(*   - the ready promise resolves once;                                    *)
(*   - an activate event may be emitted at any time while the process      *)
(*     lives, also before ready; it runs the listeners registered then;    *)
(*   - closing a window removes it from the open-window set, and removing  *)
(*     the last one makes the host emit window-all-closed before it        *)
(*     handles any other event;                                            *)
(*   - app.quit() with the default before-quit/will-quit handling closes   *)
(*     every window and ends the process, after which no event is          *)
(*     dispatched.                                                         *)
(* A quit started by the user or the host itself (menu, signal) is not an  *)
(* operation of the shell and is not modelled.                             *)
(***************************************************************************)
EXTENDS Integers, FiniteSets, Sequences, TLC

\* Number of host events (ready, activate, window close) one behaviour delivers.
MaxEvents == 7

\* process.platform values the shell may run under (main.js:23 tests 'darwin').
Platforms == {"darwin", "linux", "win32"}

\* main.js:7
Width == 800
\* main.js:8
Height == 600
\* main.js:10, path.join(__dirname, 'preload.js')
PreloadPath == <<"__dirname", "preload.js">>
\* main.js:13
IndexHtml == "dist/index.html"
\* A BrowserWindow that has not been told to load anything.
NoFile == "about:blank"

VARIABLES
    platform,   \* process.platform
    ready,      \* app.whenReady() has resolved and its continuation has run
    alive,      \* the process has not exited
    windows,    \* BrowserWindow.getAllWindows(): the open top-level windows
    created,    \* number of BrowserWindow objects constructed so far
    quits,      \* number of app.quit() calls issued so far
    listeners,  \* events that have a listener registered with app.on
    pending,    \* event the host has emitted and not yet dispatched
    last,       \* the last event dispatched and what its handler did
    nEvents     \* host events delivered so far

vars == <<platform, ready, alive, windows, created, quits, listeners, pending, last, nEvents>>

\* The part of the state the shell's handlers read and change.
Host == [windows |-> windows, created |-> created, quits |-> quits,
         alive |-> alive, listeners |-> listeners]

Commit(h) ==
    /\ windows' = h.windows
    /\ created' = h.created
    /\ quits' = h.quits
    /\ alive' = h.alive
    /\ listeners' = h.listeners

----------------------------------------------------------------------------
\* The shell (src/main.js)

\* new BrowserWindow({width, height, webPreferences: {preload}})
BrowserWindow(id, opts) ==
    [id |-> id, width |-> opts.width, height |-> opts.height,
     preload |-> opts.webPreferences.preload, file |-> NoFile]

\* win.loadFile(p)
loadFile(win, p) == [win EXCEPT !.file = p]

getAllWindows(h) == h.windows

\* createWindow without the win.loadFile call of main.js:13.
createWindow_NoLoad(h) ==
    LET win == BrowserWindow(h.created + 1,
                   [width |-> Width, height |-> Height,
                    webPreferences |-> [preload |-> PreloadPath]])
    IN [h EXCEPT !.windows = @ \cup {win}, !.created = @ + 1]

\* main.js:5-14
createWindow(h) ==
    LET win == BrowserWindow(h.created + 1,
                   [width |-> Width, height |-> Height,
                    webPreferences |-> [preload |-> PreloadPath]])
    IN [h EXCEPT !.windows = @ \cup {loadFile(win, IndexHtml)},
                 !.created = @ + 1]

\* A quit that is issued and does not end the process.
appQuit_NoExit(h) == [h EXCEPT !.quits = @ + 1]

\* app.quit(), main.js:24
appQuit(h) == [h EXCEPT !.quits = @ + 1, !.windows = {}, !.alive = FALSE]

\* The activate listener with its test inverted (!== 0).
onActivate_Inverted(h) ==
    IF Cardinality(getAllWindows(h)) # 0 THEN createWindow(h) ELSE h

\* The activate listener calling createWindow twice.
onActivate_Two(h) ==
    IF Cardinality(getAllWindows(h)) = 0 THEN createWindow(createWindow(h)) ELSE h

\* The activate listener without the test of main.js:18.
onActivate_NoCheck(h) == createWindow(h)

\* The activate listener building its own window and loading nothing into it.
onActivate_Bare(h) ==
    IF Cardinality(getAllWindows(h)) = 0 THEN createWindow_NoLoad(h) ELSE h

\* main.js:17-20, the activate listener
onActivate(h) ==
    IF Cardinality(getAllWindows(h)) = 0 THEN createWindow(h) ELSE h

\* The ready continuation registering the listener and creating no window.
onReady_NoWindow(h) == [h EXCEPT !.listeners = @ \cup {"activate"}]

\* The ready continuation creating the window and registering no listener.
onReady_NoListener(h) == createWindow(h)

\* main.js:15-21, the continuation of app.whenReady()
onReady(h) ==
    [createWindow(h) EXCEPT !.listeners = @ \cup {"activate"}]

\* The window-all-closed listener with its test inverted (=== 'darwin').
onWindowAllClosed_Flipped(h, plat) ==
    IF plat = "darwin" THEN appQuit(h) ELSE h

\* The window-all-closed listener registered twice, so that it runs twice.
onWindowAllClosed_Twice(h, plat) ==
    IF plat # "darwin" THEN appQuit(appQuit(h)) ELSE h

\* The window-all-closed listener without the platform test of main.js:23.
onWindowAllClosed_NoPlatformCheck(h, plat) == appQuit(h)

\* main.js:22-25, the window-all-closed listener
onWindowAllClosed(h, plat) ==
    IF plat # "darwin" THEN appQuit(h) ELSE h

\* The host running the listener of ev, if one is registered.
Dispatch(ev, h, plat) ==
    IF ev \notin h.listeners THEN h
    ELSE IF ev = "activate" THEN onActivate(h)
    ELSE IF ev = "window-all-closed" THEN onWindowAllClosed(h, plat)
    ELSE h

\* What the handler of ev did, from the state before (h) and after (g).
Record(ev, h, g) ==
    [ev |-> ev, before |-> Cardinality(h.windows), wasReady |-> ready,
     made |-> g.created - h.created, quit |-> g.quits - h.quits]

----------------------------------------------------------------------------
\* main.js with app.on('activate') registered at the top level, next to
\* window-all-closed, instead of inside the ready continuation.
Init_ActivateAtTopLevel ==
    /\ platform \in Platforms
    /\ ready = FALSE
    /\ alive = TRUE
    /\ windows = {}
    /\ created = 0
    /\ quits = 0
    /\ listeners = {"window-all-closed", "activate"}
    /\ pending = "none"
    /\ last = [ev |-> "none", before |-> 0, wasReady |-> FALSE, made |-> 0, quit |-> 0]
    /\ nEvents = 0

\* main.js has run to its end: window-all-closed is registered (line 22), the
\* ready continuation is not yet run.
Init ==
    /\ platform \in Platforms
    /\ ready = FALSE
    /\ alive = TRUE
    /\ windows = {}
    /\ created = 0
    /\ quits = 0
    /\ listeners = {"window-all-closed"}
    /\ pending = "none"
    /\ last = [ev |-> "none", before |-> 0, wasReady |-> FALSE, made |-> 0, quit |-> 0]
    /\ nEvents = 0

\* The host becomes ready: the whenReady continuation runs, once.
Ready ==
    /\ alive /\ ~ready /\ pending = "none" /\ nEvents < MaxEvents
    /\ LET g == onReady(Host)
       IN /\ Commit(g)
          /\ last' = Record("ready", Host, g)
    /\ ready' = TRUE
    /\ nEvents' = nEvents + 1
    /\ UNCHANGED <<platform, pending>>

\* The host emits activate.
Activate ==
    /\ alive /\ pending = "none" /\ nEvents < MaxEvents
    /\ LET g == Dispatch("activate", Host, platform)
       IN /\ Commit(g)
          /\ last' = Record("activate", Host, g)
    /\ nEvents' = nEvents + 1
    /\ UNCHANGED <<platform, ready, pending>>

\* The user closes an open window; the host emits window-all-closed when it
\* was the last one.
CloseWindow ==
    /\ alive /\ pending = "none" /\ nEvents < MaxEvents
    /\ \E w \in windows :
          LET g == [Host EXCEPT !.windows = @ \ {w}]
          IN /\ Commit(g)
             /\ last' = Record("close", Host, g)
             /\ pending' = IF g.windows = {} THEN "window-all-closed" ELSE "none"
    /\ nEvents' = nEvents + 1
    /\ UNCHANGED <<platform, ready>>

\* The host dispatches the emitted window-all-closed.
WindowAllClosed ==
    /\ alive /\ pending = "window-all-closed"
    /\ LET g == Dispatch("window-all-closed", Host, platform)
       IN /\ Commit(g)
          /\ last' = Record("window-all-closed", Host, g)
    /\ pending' = "none"
    /\ UNCHANGED <<platform, ready, nEvents>>

Next ==
    \/ Ready
    \/ Activate
    \/ CloseWindow
    \/ WindowAllClosed

Spec == Init /\ [][Next]_vars

\* The host emits window-all-closed synchronously when the last window goes,
\* so an emitted event is always dispatched.
FairSpec == Spec /\ WF_vars(WindowAllClosed)

TypeOK ==
    /\ platform \in Platforms
    /\ ready \in BOOLEAN /\ alive \in BOOLEAN
    /\ created \in 0..MaxEvents /\ quits \in 0..MaxEvents /\ nEvents \in 0..MaxEvents
    /\ listeners \subseteq {"activate", "window-all-closed"}
    /\ pending \in {"none", "window-all-closed"}
    /\ \A w \in windows : w.id \in 1..created

----------------------------------------------------------------------------
\* The spec's state machine, read off the state of the shell.
ShellState ==
    IF ~alive THEN "terminated"
    ELSE IF ~ready THEN "not-ready"
    ELSE IF windows = {} THEN "ready-no-window"
    ELSE "ready-with-window(s)"

\* C1: on a platform other than darwin, every dispatched window-all-closed
\* makes the listener issue one quit and leaves the process terminated, and
\* every closing of the last window leads to the terminated state.
C1_AllClosedQuits ==
    /\ [](platform # "darwin" /\ last.ev = "window-all-closed"
            => last.quit = 1 /\ ~alive)
    /\ ((platform # "darwin" /\ ready /\ windows = {} /\ pending = "window-all-closed")
            ~> (~alive /\ quits = 1))

C1_Witness ==
    /\ platform = "linux"
    /\ last.ev = "window-all-closed" /\ last.before = 0 /\ last.quit = 1
    /\ ShellState = "terminated"

\* C2: on a platform other than darwin the quit command is issued at most
\* once, whatever events are delivered.
C2_QuitAtMostOnce == platform # "darwin" => quits <= 1

C2_Witness == platform = "win32" /\ quits = 1 /\ ~alive /\ created = 1

\* C3: on darwin the process never terminates: no quit is ever issued, and
\* the window-all-closed listener creates no window, so that the process is
\* alive with no open window after it.
C3_DarwinStaysAlive ==
    platform = "darwin" =>
        /\ alive /\ quits = 0
        /\ last.ev = "window-all-closed" =>
              last.quit = 0 /\ last.made = 0 /\ Cardinality(windows) = 0

C3_Witness ==
    /\ platform = "darwin" /\ last.ev = "window-all-closed"
    /\ alive /\ windows = {} /\ pending = "none"

\* C4 as stated: every activate delivered while no window is open creates
\* exactly one window.
C4_Original ==
    last.ev = "activate" /\ last.before = 0 => last.made = 1

\* C4 amended: every activate delivered after the ready continuation has run
\* and while no window is open creates exactly one window.
C4_ActivateCreatesOne ==
    last.ev = "activate" /\ last.wasReady /\ last.before = 0
        => last.made = 1 /\ Cardinality(windows) = 1

C4_Witness ==
    /\ last.ev = "activate" /\ last.wasReady /\ last.before = 0
    /\ last.made = 1 /\ created >= 2

\* C5: an activate delivered while a window is open changes nothing: no
\* window is created, no quit is issued, the open windows and the process
\* stay as they are.
C5_ActivateNoOp ==
    [][(windows # {} /\ last'.ev = "activate" /\ nEvents' = nEvents + 1)
          => UNCHANGED <<windows, created, quits, alive, listeners, ready, pending>>]_vars

C5_Witness ==
    /\ last.ev = "activate" /\ last.before = 1 /\ last.made = 0
    /\ Cardinality(windows) = 1 /\ alive

\* C6: the ready continuation creates exactly one window, taking the open
\* windows from none to one, 800 wide, 600 high and loading dist/index.html.
C6_ReadyCreatesWindow ==
    last.ev = "ready" =>
        /\ last.before = 0 /\ last.made = 1 /\ created = 1
        /\ Cardinality(windows) = 1
        /\ \A w \in windows :
              w.width = 800 /\ w.height = 600 /\ w.file = "dist/index.html"

C6_Witness ==
    /\ last.ev = "ready" /\ ready /\ nEvents = 1
    /\ \E w \in windows : w.id = 1 /\ w.file = IndexHtml

\* C7 as stated: after any activate delivered to a process that has not
\* terminated, at least one window is open.
C7_Original ==
    last.ev = "activate" /\ alive => Cardinality(windows) >= 1

\* C7 amended: after any activate delivered to a process that has not
\* terminated and whose ready continuation has run, at least one window is
\* open.
C7_ReactivatedHasWindow ==
    last.ev = "activate" /\ last.wasReady /\ alive => Cardinality(windows) >= 1

C7_Witness ==
    last.ev = "activate" /\ last.wasReady /\ alive /\ Cardinality(windows) = 1

\* C8: once a quit has been issued the process is terminated for good: no
\* later step delivers an event, creates a window or issues another quit.
C8_TerminatedIsTerminal ==
    [][quits > 0 =>
          /\ ~alive /\ ~alive'
          /\ UNCHANGED <<windows, created, quits, nEvents>>]_vars

C8_Witness ==
    /\ ~alive /\ quits = 1 /\ windows = {} /\ platform # "darwin"
    /\ nEvents < MaxEvents

\* C9: the shell starts in not-ready and every change of its state is one of
\* the four transitions of the spec's state machine.
C9_Transition ==
    \/ /\ ShellState = "not-ready" /\ ShellState' = "ready-with-window(s)"
       /\ last'.ev = "ready"
    \/ /\ ShellState = "ready-with-window(s)" /\ ShellState' = "ready-no-window"
       /\ last'.ev = "close"
    \/ /\ ShellState = "ready-no-window" /\ ShellState' = "ready-with-window(s)"
       /\ last'.ev = "activate"
    \/ /\ ShellState = "ready-no-window" /\ ShellState' = "terminated"
       /\ last'.ev = "window-all-closed" /\ platform # "darwin"

C9_Refines ==
    /\ ShellState = "not-ready"
    /\ [][ShellState' = ShellState \/ C9_Transition]_vars

C9_Witness ==
    /\ ShellState = "ready-with-window(s)" /\ last.ev = "activate"
    /\ created >= 2

\* C10: on darwin, once the ready continuation has run and the only window
\* has been closed, the next activate creates exactly one window and leaves
\* exactly one window open.
C10_DarwinReactivate ==
    [][(/\ platform = "darwin" /\ ready /\ alive /\ windows = {}
        /\ last'.ev = "activate")
          => /\ created' = created + 1
             /\ Cardinality(windows') = 1
             /\ \A w \in windows' : w.id = created']_vars

C10_Witness ==
    /\ platform = "darwin" /\ last.ev = "activate" /\ last.before = 0
    /\ created = 2 /\ Cardinality(windows) = 1

\* C11: every window the shell has open, the one created on ready and each
\* one created on activate, has the configuration of the initial window:
\* 800 wide, 600 high, the preload script and dist/index.html loaded; nothing
\* of an earlier window is carried over.
C11_SameConfiguration ==
    \A w \in windows :
        /\ w.width = 800 /\ w.height = 600
        /\ w.preload = <<"__dirname", "preload.js">>
        /\ w.file = "dist/index.html"
        /\ [w EXCEPT !.id = 1] \in createWindow([Host EXCEPT !.created = 0,
                                                             !.windows = {}]).windows

C11_Witness ==
    /\ last.ev = "activate" /\ last.made = 1 /\ created >= 2
    /\ \E w \in windows : w.id = created /\ w.width = Width /\ w.file = IndexHtml

\* C12: no window exists before ready: until the ready continuation has run
\* there is no activate listener, no window has been created and none is
\* open; an activate delivered then changes nothing; and the first window is
\* the one the ready continuation creates.
C12_NotReadyState ==
    /\ ~ready => /\ "activate" \notin listeners
                 /\ created = 0 /\ windows = {}
                 /\ quits = 0 /\ alive
    /\ last.ev = "ready" => created = 1 /\ (\A w \in windows : w.id = 1)

C12_NoWindowBeforeReady ==
    /\ []C12_NotReadyState
    /\ [][(~ready /\ last'.ev = "activate")
            => UNCHANGED <<windows, created, quits, alive, listeners, ready, pending>>]_vars

C12_Witness ==
    /\ last.ev = "activate" /\ ~last.wasReady /\ last.made = 0
    /\ ~ready /\ windows = {} /\ nEvents >= 2

\* C13: at most one window is ever open, and every handler that creates a
\* window does so only when none is open.
C13_AtMostOneWindow ==
    /\ Cardinality(windows) <= 1
    /\ last.made >= 1 => last.before = 0 /\ last.made = 1

C13_Witness ==
    /\ Cardinality(windows) = 1 /\ created >= 3
    /\ last.ev = "activate" /\ last.before = 1

====
